---- MODULE Spec2Model ----
(***************************************************************************)
(* Model of app.py, the Streamlit "Financial Sankey Generator": one run of *)
(* the script.  The uploaded table is classified row by row into the data  *)
(* holders, the manual-input tab then writes its widgets into the same     *)
(* holders, the totals are computed and the node/edge lists of the Sankey  *)
(* diagram are built through get_idx.                                      *)
(*                                                                         *)
(* Monetary values are Python floats in the program; they are integers     *)
(* here.  Rows are well typed (a name, a number, a type text): the         *)
(* try/except around the upload is not exercised.  A type text is a        *)
(* sequence of one-character strings so that `in` (substring) and lower()  *)
(* are computed, not assumed.                                              *)
(***************************************************************************)
EXTENDS Integers, Sequences, FiniteSets, TLC

VARIABLES
    lang,            \* st.sidebar.radio choice
    df,              \* the uploaded table: sequence of rows [name, val, type]
    rowIdx,          \* rows of df already consumed by the for loop
    branch,          \* branch of the if/elif chain the last row took
    revenue_items,   \* dict name -> value, in insertion order
    cogs_value,
    expense_items,   \* dict name -> value, in insertion order
    total_revenue,
    gross_profit,
    total_expenses,
    net_income,
    labels,
    source_indices,
    target_indices,
    values,
    total_rev_idx,
    cogs_idx,
    gp_idx,
    i,               \* position of the running for loop over a dict
    pc,              \* position in the script
    call             \* the last direct call of get_idx: [name, ret]

vars == <<lang, df, rowIdx, branch, revenue_items, cogs_value, expense_items,
          total_revenue, gross_profit, total_expenses, net_income, labels,
          source_indices, target_indices, values, total_rev_idx, cogs_idx,
          gp_idx, i, pc, call>>

(***************************************************************************)
(* Bounds                                                                  *)
(***************************************************************************)
MaxRows == 2

(***************************************************************************)
(* The language dictionary (only the entries the build reads).  The        *)
(* Turkish texts are written without diacritics.                           *)
(***************************************************************************)
TRANS ==
    [English |->
        [total_revenue |-> "Total Revenue",
         cogs_label    |-> "Cost of Revenue (COGS)",
         gross_profit  |-> "Gross Profit",
         net_income    |-> "Net Income"],
     Turkce |->
        [total_revenue |-> "Toplam Gelir",
         cogs_label    |-> "Satislarin Maliyeti (COGS)",
         gross_profit  |-> "Brut Kar",
         net_income    |-> "Net Kar"]]

Langs == {"English", "Turkce"}

t == TRANS[lang]

(***************************************************************************)
(* Text helpers: str.lower() and the substring test `kw in text`.          *)
(***************************************************************************)
UpperChars == <<"A","B","C","D","E","F","G","H","I","J","K","L","M",
                "N","O","P","Q","R","S","T","U","V","W","X","Y","Z">>
LowerChars == <<"a","b","c","d","e","f","g","h","i","j","k","l","m",
                "n","o","p","q","r","s","t","u","v","w","x","y","z">>

LowerChar(c) ==
    IF \E k \in 1..Len(UpperChars) : UpperChars[k] = c
    THEN LowerChars[CHOOSE k \in 1..Len(UpperChars) : UpperChars[k] = c]
    ELSE c

Lower(text) == [k \in 1..Len(text) |-> LowerChar(text[k])]

Contains(text, kw) ==
    \E k \in 1..(Len(text) - Len(kw) + 1) :
        SubSeq(text, k, k + Len(kw) - 1) = kw

\* The keywords of the if/elif chain.
kw_rev     == <<"r","e","v">>
kw_gelir   == <<"g","e","l","i","r">>
kw_cog     == <<"c","o","g">>
kw_cost    == <<"c","o","s","t">>
kw_maliyet == <<"m","a","l","i","y","e","t">>
kw_exp     == <<"e","x","p">>
kw_gider   == <<"g","i","d","e","r">>
kw_tax     == <<"t","a","x">>
kw_vergi   == <<"v","e","r","g","i">>

\* A plausible slip: the cost keywords tested before the revenue keywords.
ClassifyCostFirst(row_type) ==
    IF Contains(row_type, kw_cog) \/ Contains(row_type, kw_cost)
          \/ Contains(row_type, kw_maliyet)
    THEN "CostOfRevenue"
    ELSE IF Contains(row_type, kw_rev) \/ Contains(row_type, kw_gelir)
    THEN "Revenue"
    ELSE IF Contains(row_type, kw_exp) \/ Contains(row_type, kw_gider)
              \/ Contains(row_type, kw_tax) \/ Contains(row_type, kw_vergi)
    THEN "Expense"
    ELSE "Unknown"

\* The branch of the if/elif chain a lower-cased type text takes.
Classify(row_type) ==
    IF Contains(row_type, kw_rev) \/ Contains(row_type, kw_gelir)
    THEN "Revenue"
    ELSE IF Contains(row_type, kw_cog) \/ Contains(row_type, kw_cost)
              \/ Contains(row_type, kw_maliyet)
    THEN "CostOfRevenue"
    ELSE IF Contains(row_type, kw_exp) \/ Contains(row_type, kw_gider)
              \/ Contains(row_type, kw_tax) \/ Contains(row_type, kw_vergi)
    THEN "Expense"
    ELSE "Unknown"

(***************************************************************************)
(* Python dict with insertion order: a sequence of [name, val] entries     *)
(* with pairwise different names.                                          *)
(***************************************************************************)
DictKeys(d) == {d[k].name : k \in 1..Len(d)}

\* d[name] = val
DictSet(d, name, val) ==
    IF name \in DictKeys(d)
    THEN [k \in 1..Len(d) |->
             IF d[k].name = name THEN [name |-> name, val |-> val] ELSE d[k]]
    ELSE Append(d, [name |-> name, val |-> val])

RECURSIVE SumVals(_)
\* sum(d.values())
SumVals(d) == IF d = <<>> THEN 0 ELSE d[1].val + SumVals(Tail(d))

(***************************************************************************)
(* get_idx: the label registry over the list `labels`.                     *)
(***************************************************************************)
Range(s) == {s[k] : k \in 1..Len(s)}

\* list.index(name): 0-based position of the first occurrence.
ListIndex(ls, name) ==
    (CHOOSE k \in 1..Len(ls) :
        ls[k] = name /\ \A j \in 1..(k - 1) : ls[j] # name) - 1

\* A plausible slip: the membership test forgotten, every call appends.
get_idx_always_append(ls, name) ==
    [labels |-> Append(ls, name), idx |-> ListIndex(Append(ls, name), name)]

\* A plausible slip: the 1-based position returned.
get_idx_one_based(ls, name) ==
    LET after == IF name \notin Range(ls) THEN Append(ls, name) ELSE ls
    IN  [labels |-> after, idx |-> ListIndex(after, name) + 1]

\* get_idx(name) on the list ls: the list afterwards and the returned index.
get_idx(ls, name) ==
    LET after == IF name \notin Range(ls) THEN Append(ls, name) ELSE ls
    IN  [labels |-> after, idx |-> ListIndex(after, name)]

(***************************************************************************)
(* Inputs.  Type texts as the user may write them in the third column.     *)
(***************************************************************************)
T_Revenue       == <<"R","e","v","e","n","u","e">>
T_Gelir         == <<"G","e","l","i","r">>
T_COGS          == <<"C","O","G","S">>
T_Cost          == <<"C","o","s","t">>
T_Maliyet       == <<"M","a","l","i","y","e","t">>
T_Expense       == <<"E","x","p","e","n","s","e">>
T_Gider         == <<"G","i","d","e","r">>
T_Tax           == <<"T","a","x">>
T_Vergi         == <<"v","e","r","g","i">>
T_Other         == <<"O","t","h","e","r">>
T_nan           == <<"n","a","n">>
T_CostOfRevenue == <<"C","o","s","t"," ","o","f"," ","R","e","v","e","n","u","e">>
T_TaxCost       == <<"T","a","x"," ","C","o","s","t">>
T_GelirVergisi  == <<"G","e","l","i","r"," ","V","e","r","g","i","s","i">>

TypeTexts ==
    {T_Revenue, T_Gelir, T_COGS, T_Cost, T_Maliyet, T_Expense, T_Gider, T_Tax,
     T_Vergi, T_Other, T_nan, T_CostOfRevenue, T_TaxCost, T_GelirVergisi}

\* Rows of the runs that exercise the build: negative and positive values,
\* names that meet the manual names.
BuildRows ==
    {[name |-> "A",   val |-> -7, type |-> T_Revenue],
     [name |-> "A",   val |-> 2,  type |-> T_Revenue],
     [name |-> "R&D", val |-> -7, type |-> T_Expense],
     [name |-> "R&D", val |-> 2,  type |-> T_Expense]}

\* Rows of the runs that exercise the upload loop: every type text.
UploadRows == [name : {"A"}, val : {1, 2}, type : TypeTexts]

Files(rowSet) == UNION {[1..n -> rowSet] : n \in 0..MaxRows}

\* Widget values of the manual tab: (r1_name, r1_val, r2_name, r2_val,
\* cogs, e1_name, e1_val); number_input has min_value=0.0.
ManualInputs ==
    {"A", "Gross Profit"} \X {0, 3} \X {"A", "B"} \X {0, 2} \X {0, 1, 6}
        \X {"B", "R&D"} \X {0, 1}

\* The widgets left at their defaults.
ManualDefaults == <<"Product A", 100, "Services", 50, 60, "R&D", 20>>

\* Labels handed to get_idx when the registry is exercised alone.
RegNames == {"Total Revenue", "Cost of Revenue (COGS)", "Gross Profit",
             "Net Income", "A"}

NoCall == [name |-> "", ret |-> -1]

(***************************************************************************)
(* The state at the top of the script, after the data holders are set and  *)
(* (if a file was uploaded) the table was read.                            *)
(***************************************************************************)
InitWith(languages, files) ==
    /\ lang \in languages
    /\ df \in files
    /\ rowIdx = 0
    /\ branch = "none"
    /\ revenue_items = <<>>
    /\ cogs_value = 0
    /\ expense_items = <<>>
    /\ total_revenue = 0
    /\ gross_profit = 0
    /\ total_expenses = 0
    /\ net_income = 0
    /\ labels = <<>>
    /\ source_indices = <<>>
    /\ target_indices = <<>>
    /\ values = <<>>
    /\ total_rev_idx = -1
    /\ cogs_idx = -1
    /\ gp_idx = -1
    /\ i = 0
    /\ pc = "upload"
    /\ call = NoCall

Init == InitWith(Langs, Files(BuildRows))

InitUpload == InitWith({"English"}, Files(UploadRows))

InitRegistry == InitWith({"English"}, {<<>>})

(***************************************************************************)
(* Tab 1: one iteration of `for index, row in df.iterrows()`.              *)
(***************************************************************************)
\* A plausible slip: a final `else` that files the row under the expenses.
ProcessRowElseExpense ==
    /\ pc = "upload"
    /\ rowIdx < Len(df)
    /\ LET row      == df[rowIdx + 1]
           name     == row.name
           val      == row.val
           row_type == Lower(row.type)
           cat      == Classify(row_type)
       IN  /\ branch' = cat
           /\ revenue_items' =
                 IF cat = "Revenue"
                 THEN DictSet(revenue_items, name, val) ELSE revenue_items
           /\ cogs_value' =
                 IF cat = "CostOfRevenue"
                 THEN cogs_value + val ELSE cogs_value
           /\ expense_items' =
                 IF cat \in {"Expense", "Unknown"}
                 THEN DictSet(expense_items, name, val) ELSE expense_items
    /\ rowIdx' = rowIdx + 1
    /\ UNCHANGED <<lang, df, total_revenue, gross_profit, total_expenses,
                   net_income, labels, source_indices, target_indices, values,
                   total_rev_idx, cogs_idx, gp_idx, i, pc, call>>

ProcessRow ==
    /\ pc = "upload"
    /\ rowIdx < Len(df)
    /\ LET row      == df[rowIdx + 1]
           name     == row.name
           val      == row.val
           row_type == Lower(row.type)
           cat      == Classify(row_type)
       IN  /\ branch' = cat
           /\ revenue_items' =
                 IF cat = "Revenue"
                 THEN DictSet(revenue_items, name, val) ELSE revenue_items
           /\ cogs_value' =
                 IF cat = "CostOfRevenue"
                 THEN cogs_value + val ELSE cogs_value
           /\ expense_items' =
                 IF cat = "Expense"
                 THEN DictSet(expense_items, name, val) ELSE expense_items
    /\ rowIdx' = rowIdx + 1
    /\ UNCHANGED <<lang, df, total_revenue, gross_profit, total_expenses,
                   net_income, labels, source_indices, target_indices, values,
                   total_rev_idx, cogs_idx, gp_idx, i, pc, call>>

(***************************************************************************)
(* Tab 2: the manual widgets are written into the same data holders; the   *)
(* block runs on every run of the script, after the upload loop.           *)
(***************************************************************************)
ManualInput(r1_name, r1_val, r2_name, r2_val, cogs, e1_name, e1_val) ==
    /\ pc = "upload"
    /\ rowIdx = Len(df)
    /\ revenue_items' =
          DictSet(DictSet(revenue_items, r1_name, r1_val), r2_name, r2_val)
    /\ cogs_value' = cogs
    /\ expense_items' = DictSet(expense_items, e1_name, e1_val)
    /\ pc' = "totals"
    /\ UNCHANGED <<lang, df, rowIdx, branch, total_revenue, gross_profit,
                   total_expenses, net_income, labels, source_indices,
                   target_indices, values, total_rev_idx, cogs_idx, gp_idx,
                   i, call>>

(***************************************************************************)
(* 1. Calculate Totals                                                     *)
(***************************************************************************)
\* A plausible slip: the cost of revenue not subtracted.
CalculateTotalsNoCogs ==
    /\ pc = "totals"
    /\ total_revenue' = SumVals(revenue_items)
    /\ gross_profit' = SumVals(revenue_items)
    /\ total_expenses' = SumVals(expense_items)
    /\ net_income' = SumVals(revenue_items) - SumVals(expense_items)
    /\ pc' = "total_rev_idx"
    /\ UNCHANGED <<lang, df, rowIdx, branch, revenue_items, cogs_value,
                   expense_items, labels, source_indices, target_indices,
                   values, total_rev_idx, cogs_idx, gp_idx, i, call>>

CalculateTotals ==
    /\ pc = "totals"
    /\ total_revenue' = SumVals(revenue_items)
    /\ gross_profit' = total_revenue' - cogs_value
    /\ total_expenses' = SumVals(expense_items)
    /\ net_income' = gross_profit' - total_expenses'
    /\ pc' = "total_rev_idx"
    /\ UNCHANGED <<lang, df, rowIdx, branch, revenue_items, cogs_value,
                   expense_items, labels, source_indices, target_indices,
                   values, total_rev_idx, cogs_idx, gp_idx, i, call>>

(***************************************************************************)
(* 3. Build Flows                                                          *)
(***************************************************************************)
\* total_rev_idx = get_idx(t["total_revenue"])
TotalRevIdx ==
    /\ pc = "total_rev_idx"
    /\ LET r == get_idx(labels, t.total_revenue)
       IN  /\ labels' = r.labels
           /\ total_rev_idx' = r.idx
    /\ i' = 0
    /\ pc' = "rev_loop"
    /\ UNCHANGED <<lang, df, rowIdx, branch, revenue_items, cogs_value,
                   expense_items, total_revenue, gross_profit, total_expenses,
                   net_income, source_indices, target_indices, values,
                   cogs_idx, gp_idx, call>>

\* A plausible slip: the `if val > 0` filter forgotten.
RevenueFlowNoFilter ==
    /\ pc = "rev_loop"
    /\ i < Len(revenue_items)
    /\ LET name == revenue_items[i + 1].name
           val  == revenue_items[i + 1].val
           r    == get_idx(labels, name)
       IN  /\ labels' = r.labels
           /\ source_indices' = Append(source_indices, r.idx)
           /\ target_indices' = Append(target_indices, total_rev_idx)
           /\ values' = Append(values, val)
    /\ i' = i + 1
    /\ UNCHANGED <<lang, df, rowIdx, branch, revenue_items, cogs_value,
                   expense_items, total_revenue, gross_profit, total_expenses,
                   net_income, total_rev_idx, cogs_idx, gp_idx, pc, call>>

\* One iteration of `for name, val in revenue_items.items()`.
RevenueFlow ==
    /\ pc = "rev_loop"
    /\ i < Len(revenue_items)
    /\ LET name == revenue_items[i + 1].name
           val  == revenue_items[i + 1].val
           r    == get_idx(labels, name)
       IN  IF val > 0
           THEN /\ labels' = r.labels
                /\ source_indices' = Append(source_indices, r.idx)
                /\ target_indices' = Append(target_indices, total_rev_idx)
                /\ values' = Append(values, val)
           ELSE UNCHANGED <<labels, source_indices, target_indices, values>>
    /\ i' = i + 1
    /\ UNCHANGED <<lang, df, rowIdx, branch, revenue_items, cogs_value,
                   expense_items, total_revenue, gross_profit, total_expenses,
                   net_income, total_rev_idx, cogs_idx, gp_idx, pc, call>>

\* A plausible slip: the gross-profit link appended before the COGS link.
CogsGpFlowSwapped ==
    /\ pc = "rev_loop"
    /\ i = Len(revenue_items)
    /\ LET r1 == get_idx(labels, t.cogs_label)
           r2 == get_idx(r1.labels, t.gross_profit)
           gp == gross_profit > 0
           cg == cogs_value > 0
           s1 == IF gp THEN Append(source_indices, total_rev_idx)
                       ELSE source_indices
           t1 == IF gp THEN Append(target_indices, r2.idx) ELSE target_indices
           v1 == IF gp THEN Append(values, gross_profit) ELSE values
       IN  /\ labels' = r2.labels
           /\ cogs_idx' = r1.idx
           /\ gp_idx' = r2.idx
           /\ source_indices' = IF cg THEN Append(s1, total_rev_idx) ELSE s1
           /\ target_indices' = IF cg THEN Append(t1, r1.idx) ELSE t1
           /\ values' = IF cg THEN Append(v1, cogs_value) ELSE v1
    /\ i' = 0
    /\ pc' = "exp_loop"
    /\ UNCHANGED <<lang, df, rowIdx, branch, revenue_items, cogs_value,
                   expense_items, total_revenue, gross_profit, total_expenses,
                   net_income, total_rev_idx, call>>

\* Flow: Total Revenue -> COGS & Gross Profit (the revenue loop is over).
CogsGpFlow ==
    /\ pc = "rev_loop"
    /\ i = Len(revenue_items)
    /\ LET r1 == get_idx(labels, t.cogs_label)
           r2 == get_idx(r1.labels, t.gross_profit)
           cg == cogs_value > 0
           gp == gross_profit > 0
           s1 == IF cg THEN Append(source_indices, total_rev_idx)
                       ELSE source_indices
           t1 == IF cg THEN Append(target_indices, r1.idx) ELSE target_indices
           v1 == IF cg THEN Append(values, cogs_value) ELSE values
       IN  /\ labels' = r2.labels
           /\ cogs_idx' = r1.idx
           /\ gp_idx' = r2.idx
           /\ source_indices' = IF gp THEN Append(s1, total_rev_idx) ELSE s1
           /\ target_indices' = IF gp THEN Append(t1, r2.idx) ELSE t1
           /\ values' = IF gp THEN Append(v1, gross_profit) ELSE v1
    /\ i' = 0
    /\ pc' = "exp_loop"
    /\ UNCHANGED <<lang, df, rowIdx, branch, revenue_items, cogs_value,
                   expense_items, total_revenue, gross_profit, total_expenses,
                   net_income, total_rev_idx, call>>

\* One iteration of `for name, val in expense_items.items()`.
ExpenseFlow ==
    /\ pc = "exp_loop"
    /\ i < Len(expense_items)
    /\ LET name == expense_items[i + 1].name
           val  == expense_items[i + 1].val
           r    == get_idx(labels, name)
       IN  IF val > 0
           THEN /\ labels' = r.labels
                /\ source_indices' = Append(source_indices, gp_idx)
                /\ target_indices' = Append(target_indices, r.idx)
                /\ values' = Append(values, val)
           ELSE UNCHANGED <<labels, source_indices, target_indices, values>>
    /\ i' = i + 1
    /\ UNCHANGED <<lang, df, rowIdx, branch, revenue_items, cogs_value,
                   expense_items, total_revenue, gross_profit, total_expenses,
                   net_income, total_rev_idx, cogs_idx, gp_idx, pc, call>>

\* Flow: Gross Profit -> Net Income (the expense loop is over).
NetIncomeFlow ==
    /\ pc = "exp_loop"
    /\ i = Len(expense_items)
    /\ LET r == get_idx(labels, t.net_income)
       IN  IF net_income > 0
           THEN /\ labels' = r.labels
                /\ source_indices' = Append(source_indices, gp_idx)
                /\ target_indices' = Append(target_indices, r.idx)
                /\ values' = Append(values, net_income)
           ELSE UNCHANGED <<labels, source_indices, target_indices, values>>
    /\ pc' = "done"
    /\ UNCHANGED <<lang, df, rowIdx, branch, revenue_items, cogs_value,
                   expense_items, total_revenue, gross_profit, total_expenses,
                   net_income, total_rev_idx, cogs_idx, gp_idx, i, call>>

\* get_idx called on its own, on whatever the list holds.
GetIdxCall(name) ==
    /\ LET r == get_idx(labels, name)
       IN  /\ labels' = r.labels
           /\ call' = [name |-> name, ret |-> r.idx]
    /\ UNCHANGED <<lang, df, rowIdx, branch, revenue_items, cogs_value,
                   expense_items, total_revenue, gross_profit, total_expenses,
                   net_income, source_indices, target_indices, values,
                   total_rev_idx, cogs_idx, gp_idx, i, pc>>

(***************************************************************************)
(* Specifications                                                          *)
(***************************************************************************)
Build ==
    \/ CalculateTotals
    \/ TotalRevIdx
    \/ RevenueFlow
    \/ CogsGpFlow
    \/ ExpenseFlow
    \/ NetIncomeFlow

\* One run of the script: any small table, any manual widget values.
Next ==
    \/ ProcessRow
    \/ \E m \in ManualInputs : ManualInput(m[1], m[2], m[3], m[4], m[5], m[6], m[7])
    \/ Build

Spec == Init /\ [][Next]_vars

\* One run of the script: any type texts in the table, the widgets untouched.
NextUpload ==
    \/ ProcessRow
    \/ \E m \in {ManualDefaults} :
          ManualInput(m[1], m[2], m[3], m[4], m[5], m[6], m[7])
    \/ Build

SpecUpload == InitUpload /\ [][NextUpload]_vars

\* The label registry alone: any sequence of get_idx calls.
NextRegistry == \E name \in RegNames : GetIdxCall(name)

SpecRegistry == InitRegistry /\ [][NextRegistry]_vars

(***************************************************************************)
(* Vocabulary of the properties                                            *)
(***************************************************************************)
\* The entries of a dict with a positive value, in iteration order.
PosItems(d) == SelectSeq(d, LAMBDA e : e.val > 0)

\* Edge k as (source label, target label, value).
EdgeTriple(k) ==
    <<labels[source_indices[k] + 1], labels[target_indices[k] + 1], values[k]>>

EdgeTriples == [k \in 1..Len(values) |-> EdgeTriple(k)]

\* The aggregates as section 3 of the specification defines them.
GrossProfitOf == SumVals(revenue_items) - cogs_value
NetIncomeOf == GrossProfitOf - SumVals(expense_items)

AggregateLabels ==
    {t.total_revenue, t.cogs_label, t.gross_profit, t.net_income}

\* The edge list of the canonical emission order, from the inputs alone.
ExpectedEdges ==
    LET rev == PosItems(revenue_items)
        exp == PosItems(expense_items)
    IN  [k \in 1..Len(rev) |-> <<rev[k].name, t.total_revenue, rev[k].val>>]
        \o (IF cogs_value > 0
            THEN << <<t.total_revenue, t.cogs_label, cogs_value>> >> ELSE <<>>)
        \o (IF GrossProfitOf > 0
            THEN << <<t.total_revenue, t.gross_profit, GrossProfitOf>> >>
            ELSE <<>>)
        \o [k \in 1..Len(exp) |-> <<t.gross_profit, exp[k].name, exp[k].val>>]
        \o (IF NetIncomeOf > 0
            THEN << <<t.gross_profit, t.net_income, NetIncomeOf>> >> ELSE <<>>)

RECURSIVE EdgeSum(_, _, _)
\* Sum of values[j], j <= k, over the edges whose end idxs[j] is `node`.
EdgeSum(idxs, node, k) ==
    IF k = 0 THEN 0
    ELSE (IF idxs[k] = node THEN values[k] ELSE 0) + EdgeSum(idxs, node, k - 1)

InFlow(node)  == EdgeSum(target_indices, node, Len(values))
OutFlow(node) == EdgeSum(source_indices, node, Len(values))

RECURSIVE RowSum(_, _)
\* Sum of the values of the rows of `rows` classified `cat`.
RowSum(rows, cat) ==
    IF rows = <<>> THEN 0
    ELSE (IF Classify(Lower(rows[1].type)) = cat THEN rows[1].val ELSE 0)
         + RowSum(Tail(rows), cat)

HasAny(text, kws) == \E kw \in kws : Contains(text, kw)

RevenueKeywords == {kw_rev, kw_gelir}
CostKeywords    == {kw_cog, kw_cost, kw_maliyet}
ExpenseKeywords == {kw_exp, kw_gider, kw_tax, kw_vergi}

NoKeyword(text) ==
    ~HasAny(text, RevenueKeywords \cup CostKeywords \cup ExpenseKeywords)

NoDuplicates(ls) == \A a, b \in 1..Len(ls) : ls[a] = ls[b] => a = b

(***************************************************************************)
(* Properties                                                              *)
(***************************************************************************)

\* C1: every edge in the edge list has a value > 0, in every state of every
\* run, whatever zero or negative values the inputs hold.
C1_EdgesPositive == \A k \in 1..Len(values) : values[k] > 0

\* A finished build whose inputs held a negative and a zero item value.
C1_Witness ==
    /\ pc = "done"
    /\ \E k \in 1..Len(revenue_items) : revenue_items[k].val < 0
    /\ \E k \in 1..Len(expense_items) : expense_items[k].val = 0
    /\ Len(values) >= 3

\* C2: after the build the edge list is exactly the canonical sequence:
\* positive revenue items -> TotalRevenue in iteration order, then
\* TotalRevenue -> COGS if costOfRevenue > 0, then TotalRevenue -> GrossProfit
\* if grossProfit > 0, then GrossProfit -> positive expense items in
\* iteration order, then GrossProfit -> NetIncome if netIncome > 0.
C2_CanonicalOrder ==
    pc = "done" =>
        /\ Len(source_indices) = Len(values)
        /\ Len(target_indices) = Len(values)
        /\ EdgeTriples = ExpectedEdges

\* A finished build with all five groups present and two revenue edges.
C2_Witness ==
    /\ pc = "done"
    /\ Len(PosItems(revenue_items)) = 2
    /\ cogs_value > 0
    /\ GrossProfitOf > 0
    /\ Len(PosItems(expense_items)) >= 1
    /\ NetIncomeOf > 0
    /\ Len(values) = 6

\* C3 (as claimed): when grossProfit <= 0 the built graph has no
\* TotalRevenue -> GrossProfit edge and no expense or net-income edge, i.e.
\* only the revenue edges and the COGS edge are emitted.
C3_NoDownstreamWithoutGrossProfit ==
    (pc = "done" /\ GrossProfitOf <= 0) =>
        /\ \A k \in 1..Len(values) :
              ~(source_indices[k] = total_rev_idx /\ target_indices[k] = gp_idx)
        /\ Len(values) =
              Len(PosItems(revenue_items)) + (IF cogs_value > 0 THEN 1 ELSE 0)

\* C4 (as claimed): every node of the final node list is the source or the
\* target of at least one edge.
C4_EveryNodeReferenced ==
    pc = "done" =>
        \A n \in 0..(Len(labels) - 1) :
            \E k \in 1..Len(values) :
                source_indices[k] = n \/ target_indices[k] = n

\* C5: in every state during and after the build, each stored source and
\* target index is an integer in 0..len(labels)-1.
C5_IndicesValid ==
    /\ Len(source_indices) = Len(values)
    /\ Len(target_indices) = Len(values)
    /\ \A k \in 1..Len(values) :
          /\ source_indices[k] \in 0..(Len(labels) - 1)
          /\ target_indices[k] \in 0..(Len(labels) - 1)

\* A finished build in which a revenue item is named like the gross-profit
\* node and another one like an expense item.
C5_Witness ==
    /\ pc = "done"
    /\ \E k \in 1..Len(revenue_items) :
          revenue_items[k].name = t.gross_profit /\ revenue_items[k].val > 0
    /\ \E a \in 1..Len(revenue_items), b \in 1..Len(expense_items) :
          /\ revenue_items[a].name = expense_items[b].name
          /\ revenue_items[a].val > 0
          /\ expense_items[b].val > 0
    /\ Len(values) >= 5

\* C6 (as claimed): once the rows are consumed, the sum of the revenue items
\* is the sum of the values of all rows classified Revenue, the cost of
\* revenue is the sum over the rows classified CostOfRevenue, and the sum of
\* the expense items is the sum over the rows classified Expense.
C6_TotalsAreRowSums ==
    (pc = "upload" /\ rowIdx = Len(df)) =>
        /\ SumVals(revenue_items) = RowSum(df, "Revenue")
        /\ cogs_value = RowSum(df, "CostOfRevenue")
        /\ SumVals(expense_items) = RowSum(df, "Expense")

\* C7: a get_idx call with an unseen label appends it and returns the next
\* free index; a call with a seen label returns the index it holds and leaves
\* the list alone; the list never holds a label twice and only grows at its
\* end.
C7_RegistryStep ==
    LET n == call'.name
    IN  /\ n \notin Range(labels) =>
              labels' = Append(labels, n) /\ call'.ret = Len(labels)
        /\ n \in Range(labels) =>
              /\ labels' = labels
              /\ call'.ret \in 0..(Len(labels) - 1)
              /\ labels[call'.ret + 1] = n
        /\ NoDuplicates(labels')
        /\ SubSeq(labels', 1, Len(labels)) = labels

C7_LabelRegistry == [][C7_RegistryStep]_<<labels, call>>

\* Every label registered, then the first one asked for again.
C7_Witness ==
    /\ Len(labels) = Cardinality(RegNames)
    /\ call.name = labels[1]
    /\ call.ret = 0

\* C8: the branch a row takes is Revenue if its lower-cased type holds a
\* revenue keyword; else CostOfRevenue if it holds a cost keyword; else
\* Expense if it holds an expense keyword; else Unknown.
C8_ClassificationPriority ==
    rowIdx > 0 =>
        LET ty   == Lower(df[rowIdx].type)
            rev  == HasAny(ty, RevenueKeywords)
            cost == HasAny(ty, CostKeywords)
            exp  == HasAny(ty, ExpenseKeywords)
        IN  /\ rev => branch = "Revenue"
            /\ (~rev /\ cost) => branch = "CostOfRevenue"
            /\ (~rev /\ ~cost /\ exp) => branch = "Expense"
            /\ (~rev /\ ~cost /\ ~exp) => branch = "Unknown"

\* A row whose type holds a cost and a revenue keyword was filed as revenue,
\* after a row whose type holds a tax and a cost keyword.
C8_Witness ==
    /\ rowIdx = 2
    /\ df[1].type = T_TaxCost
    /\ df[2].type = T_CostOfRevenue
    /\ branch = "Revenue"
    /\ cogs_value = df[1].val

\* C9: consuming a row whose type matches no keyword leaves the revenue
\* items, the cost of revenue and the expense items unchanged and moves on
\* to the next row; the loop is left only when every row was consumed.
C9_UnknownRowStep ==
    /\ (pc = "upload" /\ rowIdx < Len(df)
           /\ NoKeyword(Lower(df[rowIdx + 1].type))) =>
          /\ UNCHANGED <<revenue_items, cogs_value, expense_items>>
          /\ rowIdx' = rowIdx + 1
          /\ pc' = "upload"
    /\ pc' # "upload" => rowIdx' = Len(df')

C9_UnknownRowSkipped == [][C9_UnknownRowStep]_vars

\* An unmatched row was consumed and the row after it was filed as revenue.
C9_Witness ==
    /\ pc = "upload"
    /\ rowIdx = 2
    /\ NoKeyword(Lower(df[1].type))
    /\ branch = "Revenue"
    /\ revenue_items = <<[name |-> df[2].name, val |-> df[2].val]>>
    /\ cogs_value = 0
    /\ expense_items = <<>>

\* The inputs C10 speaks of.
C10_Inputs ==
    /\ \A k \in 1..Len(revenue_items) : revenue_items[k].val > 0
    /\ \A k \in 1..Len(expense_items) : expense_items[k].val > 0
    /\ cogs_value >= 0
    /\ GrossProfitOf > 0
    /\ NetIncomeOf >= 0
    /\ DictKeys(revenue_items) \cap DictKeys(expense_items) = {}
    /\ (DictKeys(revenue_items) \cup DictKeys(expense_items))
          \cap AggregateLabels = {}

\* C10: for such inputs the built graph conserves flow at TotalRevenue
\* (in = out = costOfRevenue + grossProfit) and at GrossProfit
\* (in = out = expenses + netIncome).
C10_FlowConservation ==
    (pc = "done" /\ C10_Inputs) =>
        /\ InFlow(total_rev_idx) = OutFlow(total_rev_idx)
        /\ OutFlow(total_rev_idx) = cogs_value + GrossProfitOf
        /\ InFlow(gp_idx) = OutFlow(gp_idx)
        /\ OutFlow(gp_idx) = SumVals(expense_items) + NetIncomeOf

\* Such a build with two revenue items, a cost, an expense and a profit.
C10_Witness ==
    /\ pc = "done"
    /\ C10_Inputs
    /\ Len(revenue_items) = 2
    /\ cogs_value > 0
    /\ NetIncomeOf > 0
    /\ Len(values) = 6

====
